---- MODULE Spec2Model ----
(***************************************************************************)
(* High Wizardy (src/game.py): the Player aggregate, the play loop and its *)
(* menus, as a state machine.  One step runs from one input() prompt to    *)
(* the next; pc names the prompt the program waits at.  The clock is in    *)
(* whole minutes: update_energy reads the elapsed time only through        *)
(* ">= 15" and "// 15".                                                    *)
(***************************************************************************)
EXTENDS Integers, Sequences, FiniteSets, TLC

VARIABLES
    player,           \* the Player object, a record of its attributes
    now,              \* datetime.now(), in minutes
    pc,               \* the prompt the program waits at
    enemy,            \* the Enemy of the running combat()
    fights,           \* combats entered so far in this session
    rental_listings,  \* PropertyMarket.rental_listings
    disk,             \* the files savegame.json and leaderboard.json
    last              \* the operation the last step ran, and its outcome

vars == <<player, now, pc, enemy, fights, rental_listings, disk, last>>

----------------------------------------------------------------------------
(* Bounds of the model.                                                    *)

\* the clock stops advancing at MaxTime minutes
MaxTime == 30
\* combats entered in one session
MaxCombats == 2
\* points of one combat stat a session trains up to
MaxStat == 3
\* properties owned at once
MaxOwned == 2
\* the clock of the pool specification stops at MaxWait minutes
MaxWait == 35
\* gain_experience is not called once this level is reached
MaxLevel == 4
\* upgrades a session installs on one property
MaxInstalled == 2

\* minutes the clock may jump between two prompts
TickSteps == {10, 20}

Min(a, b) == IF a <= b THEN a ELSE b
Max(a, b) == IF a >= b THEN a ELSE b

----------------------------------------------------------------------------
(* Static catalogue data: Shop, PropertyMarket, the enemies of combat().   *)

\* weapon / armor slots hold 0 for None, else an index into the catalogue
NoItem == 0

Weapons ==
    << [name |-> "Wooden Sword",    price |-> 50,   damage |-> 5,  mana_cost |-> 0],
       [name |-> "Iron Sword",      price |-> 150,  damage |-> 15, mana_cost |-> 0],
       [name |-> "Steel Sword",     price |-> 300,  damage |-> 30, mana_cost |-> 0],
       [name |-> "Fire Staff",      price |-> 400,  damage |-> 40, mana_cost |-> 10],
       [name |-> "Legendary Blade", price |-> 1000, damage |-> 80, mana_cost |-> 5] >>

Armors ==
    << [name |-> "Leather Armor",      price |-> 60,   defense |-> 5],
       [name |-> "Iron Armor",         price |-> 180,  defense |-> 15],
       [name |-> "Steel Armor",        price |-> 350,  defense |-> 30],
       [name |-> "Enchanted Robes",    price |-> 500,  defense |-> 40],
       [name |-> "Dragon Scale Armor", price |-> 1200, defense |-> 70] >>

available_properties ==
    << [property_type |-> "cottage", name |-> "Cozy Cottage",
        price_shillings |-> 50,   price_pennies |-> 0, max_upgrades |-> 2],
       [property_type |-> "cottage", name |-> "Village Cottage",
        price_shillings |-> 75,   price_pennies |-> 6, max_upgrades |-> 2],
       [property_type |-> "manor",   name |-> "Stone Manor",
        price_shillings |-> 200,  price_pennies |-> 0, max_upgrades |-> 4],
       [property_type |-> "manor",   name |-> "Lakeside Manor",
        price_shillings |-> 250,  price_pennies |-> 0, max_upgrades |-> 4],
       [property_type |-> "castle",  name |-> "Small Castle",
        price_shillings |-> 500,  price_pennies |-> 0, max_upgrades |-> 6],
       [property_type |-> "castle",  name |-> "Grand Castle",
        price_shillings |-> 1000, price_pennies |-> 0, max_upgrades |-> 8] >>

available_upgrades(property_type) ==
    CASE property_type = "cottage" ->
           << [name |-> "Small Garden", cost |-> 20, happiness_bonus |-> 5],
              [name |-> "Bookshelf",    cost |-> 25, happiness_bonus |-> 5] >>
      [] property_type = "manor" ->
           << [name |-> "Library",       cost |-> 50, happiness_bonus |-> 10],
              [name |-> "Training Room", cost |-> 60, happiness_bonus |-> 10],
              [name |-> "Garden",        cost |-> 40, happiness_bonus |-> 8],
              [name |-> "Workshop",      cost |-> 55, happiness_bonus |-> 9] >>
      [] property_type = "castle" ->
           << [name |-> "Grand Library",  cost |-> 100, happiness_bonus |-> 15],
              [name |-> "Full Gymnasium", cost |-> 120, happiness_bonus |-> 15],
              [name |-> "Royal Garden",   cost |-> 90,  happiness_bonus |-> 12],
              [name |-> "Armory",         cost |-> 110, happiness_bonus |-> 13],
              [name |-> "Chapel",         cost |-> 80,  happiness_bonus |-> 11],
              [name |-> "Observatory",    cost |-> 95,  happiness_bonus |-> 12] >>
      [] OTHER -> << >>

\* the four Enemy(...) constructions of combat(), at the player's level
enemies(level) ==
    << [name |-> "Goblin",    health |-> 30 + level * 10,  damage |-> 8 + level,
        exp_reward |-> 20,  gold_reward |-> 30],
       [name |-> "Orc",       health |-> 50 + level * 15,  damage |-> 12 + level,
        exp_reward |-> 35,  gold_reward |-> 50],
       [name |-> "Dark Mage", health |-> 40 + level * 12,  damage |-> 15 + level,
        exp_reward |-> 50,  gold_reward |-> 70],
       [name |-> "Dragon",    health |-> 100 + level * 25, damage |-> 20 + level,
        exp_reward |-> 100, gold_reward |-> 150] >>

NoEnemy == [name |-> "None", health |-> 0, damage |-> 0,
            exp_reward |-> 0, gold_reward |-> 0]

----------------------------------------------------------------------------
(* Player: the methods, as functions from a player record to the next one. *)

\* Player.__init__, constructed at time t
NewPlayer(name, t) ==
    [name |-> name,
     health |-> 100, max_health |-> 100,
     mana |-> 100, max_mana |-> 100,
     energy |-> 100, max_energy |-> 100,
     gold |-> 100,
     weapon |-> NoItem, armor |-> NoItem,
     last_energy_update |-> t,
     experience |-> 0, level |-> 1,
     strength |-> 0, agility |-> 0, vitality |-> 0,
     properties |-> << >>,
     happiness |-> 0, max_happiness |-> 100]

\* what update_energy returns at clock t
energy_to_add(p, t) ==
    LET minutes_elapsed == t - p.last_energy_update
    IN  IF minutes_elapsed >= 15 THEN (minutes_elapsed \div 15) * 5 ELSE 0

\* update_energy setting last_energy_update to the current time
update_energy_snap(p, t) ==
    LET minutes_elapsed == t - p.last_energy_update
        intervals == minutes_elapsed \div 15
    IN  IF minutes_elapsed >= 15
        THEN [p EXCEPT !.energy = Min(p.max_energy, p.energy + intervals * 5),
                       !.last_energy_update = t]
        ELSE p

\* update_energy leaving last_energy_update where it was
update_energy_keep(p, t) ==
    LET minutes_elapsed == t - p.last_energy_update
        intervals == minutes_elapsed \div 15
    IN  IF minutes_elapsed >= 15
        THEN [p EXCEPT !.energy = Min(p.max_energy, p.energy + intervals * 5)]
        ELSE p

\* update_energy crediting a started interval as a full one
update_energy_eager(p, t) ==
    LET minutes_elapsed == t - p.last_energy_update
        intervals == (minutes_elapsed + 14) \div 15
    IN  IF minutes_elapsed >= 15
        THEN [p EXCEPT !.energy = Min(p.max_energy, p.energy + intervals * 5),
                       !.last_energy_update = p.last_energy_update + intervals * 15]
        ELSE p

\* the player after update_energy at clock t
update_energy(p, t) ==
    LET minutes_elapsed == t - p.last_energy_update
        intervals == minutes_elapsed \div 15
    IN  IF minutes_elapsed >= 15
        THEN [p EXCEPT !.energy = Min(p.max_energy, p.energy + intervals * 5),
                       !.last_energy_update = p.last_energy_update + intervals * 15]
        ELSE p

\* use_energy's test made on the energy before regeneration
can_use_energy_stale(p, t, amount) == p.energy >= amount

\* whether use_energy(amount) at clock t returns True
can_use_energy(p, t, amount) == update_energy(p, t).energy >= amount

\* use_energy without its call of update_energy
use_energy_no_regen(p, t, amount) ==
    IF p.energy >= amount THEN [p EXCEPT !.energy = p.energy - amount] ELSE p

\* the player after use_energy(amount) at clock t
use_energy(p, t, amount) ==
    LET q == update_energy(p, t)
    IN  IF q.energy >= amount THEN [q EXCEPT !.energy = q.energy - amount] ELSE q

\* use_mana reporting success whatever the mana held
can_use_mana_always(p, amount) == TRUE

\* whether use_mana(amount) returns True
can_use_mana(p, amount) == p.mana >= amount

use_mana(p, amount) ==
    IF p.mana >= amount THEN [p EXCEPT !.mana = p.mana - amount] ELSE p

\* heal without the min() against max_health
heal_unclamped(p, amount) == [p EXCEPT !.health = p.health + amount]

heal(p, amount) == [p EXCEPT !.health = Min(p.max_health, p.health + amount)]

restore_mana(p, amount) == [p EXCEPT !.mana = Min(p.max_mana, p.mana + amount)]

\* level_up raising the maximums without refilling the pools
level_up_unrestored(p) ==
    [p EXCEPT !.level = p.level + 1,
              !.max_health = p.max_health + 20,
              !.max_mana = p.max_mana + 10,
              !.max_energy = p.max_energy + 10]

level_up(p) ==
    [p EXCEPT !.level = p.level + 1,
              !.max_health = p.max_health + 20,
              !.max_mana = p.max_mana + 10,
              !.max_energy = p.max_energy + 10,
              !.health = p.max_health + 20,
              !.mana = p.max_mana + 10,
              !.energy = p.max_energy + 10]

gain_experience(p, exp) ==
    LET q == [p EXCEPT !.experience = p.experience + exp]
        exp_needed == q.level * 100
    IN  IF q.experience >= exp_needed THEN level_up(q) ELSE q

weapon_damage(w) == IF w = NoItem THEN 0 ELSE Weapons[w].damage

weapon_mana_cost(w) == IF w = NoItem THEN 0 ELSE Weapons[w].mana_cost

armor_defense(a) == IF a = NoItem THEN 0 ELSE Armors[a].defense

\* attack_damage without the base damage of 10
attack_damage_unarmed(p) == weapon_damage(p.weapon) + p.strength * 3

attack_damage(p) == 10 + weapon_damage(p.weapon) + p.strength * 3

\* the spell damage rounded to the nearest integer instead of truncated
magic_damage_rounded(p) == (attack_damage(p) * 3 + 1) \div 2

\* int(attack_damage() * 1.5): the product is exact in binary floating point
\* and int() truncates a non-negative value downwards
magic_damage(p) == (attack_damage(p) * 3) \div 2

\* check_dodge without the cap of 50 on the chance
check_dodge_uncapped(p, roll) == roll <= p.agility * 2

\* check_dodge with random.randint(1, 100) = roll
check_dodge(p, roll) == roll <= Min(p.agility * 2, 50)

\* the damage of an undodged attack without the floor of 1
actual_damage_unfloored(p, damage) ==
    LET total_defense == armor_defense(p.armor) + p.vitality * 2
    IN  Max(0, damage - total_defense)

\* the damage Player.take_damage reports for an undodged attack
actual_damage(p, damage) ==
    LET total_defense == armor_defense(p.armor) + p.vitality * 2
    IN  Max(1, damage - total_defense)

\* the outcomes check_dodge can have, over every value of the roll
dodge_outcomes(p) == {check_dodge(p, roll) : roll \in 1..100}

\* take_damage without the max(0, ...) on health
take_damage_unclamped(p, damage, dodged) ==
    IF dodged THEN p
    ELSE [p EXCEPT !.health = p.health - actual_damage(p, damage)]

\* the player after take_damage(damage), dodged or not
take_damage(p, damage, dodged) ==
    IF dodged THEN p
    ELSE [p EXCEPT !.health = Max(0, p.health - actual_damage(p, damage))]

\* the (actual_damage, dodged) pair take_damage returns
take_damage_result(p, damage, dodged) ==
    IF dodged THEN [actual_damage |-> 0, dodged |-> TRUE]
    ELSE [actual_damage |-> actual_damage(p, damage), dodged |-> FALSE]

\* Enemy.take_damage
enemy_take_damage(e, damage) == [e EXCEPT !.health = Max(0, e.health - damage)]

is_alive(e) == e.health > 0

----------------------------------------------------------------------------
(* Properties and happiness.                                               *)

\* sum of f[i] over 1..n
RECURSIVE SumTo(_, _)
SumTo(f, n) == IF n = 0 THEN 0 ELSE f[n] + SumTo(f, n - 1)

\* prop is an owned Property or, in browse_properties, a catalogue entry
get_price_in_gold(prop) ==
    available_properties[prop.kind].price_shillings * 12
        + available_properties[prop.kind].price_pennies

property_type(prop) == available_properties[prop.kind].property_type

max_upgrades(prop) == available_properties[prop.kind].max_upgrades

base_happiness(ptype) ==
    CASE ptype = "cottage" -> 10
      [] ptype = "manor" -> 25
      [] ptype = "castle" -> 50
      [] OTHER -> 0

\* the bonus of the upgrades alone, without the base of the property type
calculate_happiness_bonus_upgrades(prop) ==
    LET ups == available_upgrades(property_type(prop))
        boosts == [i \in 1..Len(prop.upgrades) |-> ups[prop.upgrades[i]].happiness_bonus]
    IN  SumTo(boosts, Len(prop.upgrades))

calculate_happiness_bonus(prop) ==
    LET ups == available_upgrades(property_type(prop))
        boosts == [i \in 1..Len(prop.upgrades) |-> ups[prop.upgrades[i]].happiness_bonus]
    IN  base_happiness(property_type(prop)) + SumTo(boosts, Len(prop.upgrades))

\* calculate_happiness without the min() against max_happiness
calculate_happiness_unclamped(p) ==
    LET bonuses == [i \in 1..Len(p.properties) |->
                        calculate_happiness_bonus(p.properties[i])]
    IN  [p EXCEPT !.happiness = SumTo(bonuses, Len(p.properties))]

\* the player after calculate_happiness
calculate_happiness(p) ==
    LET bonuses == [i \in 1..Len(p.properties) |->
                        calculate_happiness_bonus(p.properties[i])]
    IN  [p EXCEPT !.happiness = Min(SumTo(bonuses, Len(p.properties)), p.max_happiness)]

\* a multiplier of 1.0 + happiness / 100.0
get_happiness_multiplier_double(p) ==
    [num |-> 100 + calculate_happiness(p).happiness, den |-> 100]

\* get_happiness_multiplier: 1.0 + happiness / 200.0 on the recomputed
\* happiness, as the fraction num / den
get_happiness_multiplier(p) ==
    [num |-> 200 + calculate_happiness(p).happiness, den |-> 200]

\* int(base * multiplier): the integer part of base * (200 + happiness) / 200
\* the gain rounded to the nearest integer instead of truncated
training_gain_rounded(p, base) ==
    LET multiplier == get_happiness_multiplier(p)
    IN  (2 * base * multiplier.num + multiplier.den) \div (2 * multiplier.den)

training_gain(p, base) ==
    LET multiplier == get_happiness_multiplier(p)
    IN  (base * multiplier.num) \div multiplier.den

----------------------------------------------------------------------------
(* The files.  A JSON object is a record whose domain is the object's keys; *)
(* a file is absent, or holds text that parses to such an object or not.   *)

NoFile == [exists |-> FALSE, json |-> FALSE, data |-> [none |-> TRUE]]

\* a file holding the JSON value data
File(data) == [exists |-> TRUE, json |-> TRUE, data |-> data]

\* the working directory before the program has ever saved
NoDisk == [save_file |-> NoFile, leaderboard_file |-> NoFile]

----------------------------------------------------------------------------
(* The play loop.  pc = "loop" is the top of the while loop of play(),     *)
(* where display_status runs; every other value is an input() prompt.      *)

\* no enemy attack was made in the step
NoHit == [actual_damage |-> 0, dodged |-> FALSE, struck |-> FALSE]

\* the record of a step: the operation, whether it went through, the amount
\* it was about, and what take_damage returned if the enemy attacked in it
Did(op, ok, amt) == [op |-> op, ok |-> ok, amt |-> amt, hit |-> NoHit]

\* the record of a round in which the enemy attacked
Struck(op, damage, result) ==
    [Did(op, TRUE, damage) EXCEPT
        !.hit = [actual_damage |-> result.actual_damage,
                 dodged |-> result.dodged, struck |-> TRUE]]

\* time passes while the program waits at the main menu: only display_status
\* and combat() read the clock, and both run from there
Tick ==
    /\ pc = "main"
    /\ \E d \in TickSteps :
          /\ now + d <= MaxTime
          /\ now' = now + d
    /\ UNCHANGED <<player, pc, enemy, fights, rental_listings, last, disk>>

\* display_status: update_energy, then calculate_happiness
DisplayStatus ==
    /\ pc = "loop"
    /\ player' = calculate_happiness(update_energy(player, now))
    /\ pc' = "main"
    /\ last' = Did("display_status", TRUE, energy_to_add(player, now))
    /\ UNCHANGED <<now, enemy, fights, rental_listings, disk>>

\* main menu choices 1, 2, 5: the sub-menu prints and prompts
\* (gym() reads get_happiness_multiplier, which recomputes happiness)
OpenMenu ==
    /\ pc = "main"
    /\ \E m \in {"weapon_shop", "armor_shop", "gym"} :
          /\ pc' = m
          /\ player' = IF m = "gym" THEN calculate_happiness(player) ELSE player
          /\ last' = Did(m, TRUE, 0)
    /\ UNCHANGED <<now, enemy, fights, rental_listings, disk>>

\* choice "0" of a sub-menu: back to the play loop
LeaveMenu ==
    /\ pc \in {"weapon_shop", "armor_shop", "gym", "property_menu"}
    /\ pc' = "loop"
    /\ last' = Did("back", TRUE, 0)
    /\ UNCHANGED <<player, now, enemy, fights, rental_listings, disk>>

\* rest()
Rest ==
    /\ pc = "main"
    /\ player' = restore_mana(heal(player, 50), 50)
    /\ pc' = "loop"
    /\ last' = Did("rest", TRUE, 50)
    /\ UNCHANGED <<now, enemy, fights, rental_listings, disk>>

----------------------------------------------------------------------------
(* Shops and gym.                                                          *)

\* the player after choosing weapon idx in weapon_shop()
buy_weapon(p, idx) ==
    LET weapon == Weapons[idx]
        refund == IF p.weapon = NoItem THEN 0 ELSE Weapons[p.weapon].price \div 2
    IN  IF p.gold >= weapon.price
        THEN [p EXCEPT !.gold = p.gold - weapon.price + refund, !.weapon = idx]
        ELSE p

\* armor_shop selling without looking at the gold held
buy_armor_on_credit(p, idx) ==
    LET armor == Armors[idx]
        refund == IF p.armor = NoItem THEN 0 ELSE Armors[p.armor].price \div 2
    IN  [p EXCEPT !.gold = p.gold - armor.price + refund, !.armor = idx]

\* the player after choosing armor idx in armor_shop()
buy_armor(p, idx) ==
    LET armor == Armors[idx]
        refund == IF p.armor = NoItem THEN 0 ELSE Armors[p.armor].price \div 2
    IN  IF p.gold >= armor.price
        THEN [p EXCEPT !.gold = p.gold - armor.price + refund, !.armor = idx]
        ELSE p

BuyWeapon ==
    /\ pc = "weapon_shop"
    /\ \E idx \in 1..Len(Weapons) :
          /\ player' = buy_weapon(player, idx)
          /\ last' = Did("buy_weapon", player.gold >= Weapons[idx].price,
                         Weapons[idx].price)
    /\ UNCHANGED <<now, pc, enemy, fights, rental_listings, disk>>

BuyArmor ==
    /\ pc = "armor_shop"
    /\ \E idx \in 1..Len(Armors) :
          /\ player' = buy_armor(player, idx)
          /\ last' = Did("buy_armor", player.gold >= Armors[idx].price,
                         Armors[idx].price)
    /\ UNCHANGED <<now, pc, enemy, fights, rental_listings, disk>>

training_price(choice) == IF choice = 4 THEN 200 ELSE 50

\* the player after choosing training 1..4 in gym(); the loop then
\* reads get_happiness_multiplier again
train(p, choice) ==
    LET gain == training_gain(p, IF choice = 4 THEN 2 ELSE 1)
        q == calculate_happiness(p)
    IN  IF q.gold < training_price(choice) THEN q
        ELSE [q EXCEPT !.gold = q.gold - training_price(choice),
                       !.strength = IF choice \in {1, 4} THEN q.strength + gain
                                    ELSE q.strength,
                       !.agility = IF choice \in {2, 4} THEN q.agility + gain
                                   ELSE q.agility,
                       !.vitality = IF choice \in {3, 4} THEN q.vitality + gain
                                    ELSE q.vitality]

Train ==
    /\ pc = "gym"
    /\ \E choice \in 1..4 :
          /\ train(player, choice).strength <= MaxStat
          /\ train(player, choice).agility <= MaxStat
          /\ train(player, choice).vitality <= MaxStat
          /\ player' = train(player, choice)
          /\ last' = Did("train", player.gold >= training_price(choice),
                         training_price(choice))
    /\ UNCHANGED <<now, pc, enemy, fights, rental_listings, disk>>

----------------------------------------------------------------------------
(* The property market.  An owned Property is a record; kind is the index  *)
(* of the catalogue entry it was copied from, id tells objects apart (a    *)
(* rental listing holds a reference to the Property object).               *)

OpenPropertyMenu ==
    /\ pc = "main"
    /\ pc' = "property_menu"
    /\ last' = Did("property_menu", TRUE, 0)
    /\ UNCHANGED <<player, now, enemy, fights, rental_listings, disk>>

\* Property.__init__
NewProperty(id, kind) ==
    [id |-> id, kind |-> kind, upgrades |-> << >>,
     is_rented |-> FALSE, rented_to |-> "", rent_amount |-> 0,
     listed_for_rent |-> FALSE]

IdsInUse ==
    {player.properties[i].id : i \in 1..Len(player.properties)}
        \cup {rental_listings[i].property : i \in 1..Len(rental_listings)}

FreshId == CHOOSE n \in 1..(Cardinality(IdsInUse) + 1) : n \notin IdsInUse

add_property(p, prop) ==
    calculate_happiness([p EXCEPT !.properties = Append(p.properties, prop)])

\* the player after browse_properties with choice kind and the y/n answer
browse_properties(p, kind, confirm, id) ==
    LET price == get_price_in_gold([kind |-> kind])
    IN  IF p.gold >= price /\ confirm
        THEN add_property([p EXCEPT !.gold = p.gold - price], NewProperty(id, kind))
        ELSE p

BrowseProperties ==
    /\ pc = "property_menu"
    /\ \E kind \in 1..Len(available_properties), confirm \in BOOLEAN :
          LET price == get_price_in_gold([kind |-> kind])
          IN  /\ (player.gold >= price /\ confirm) => Len(player.properties) < MaxOwned
              /\ player' = browse_properties(player, kind, confirm, FreshId)
              /\ last' = Did(IF player.gold >= price /\ ~confirm
                             THEN "declined" ELSE "buy_property",
                             player.gold >= price /\ confirm, price)
    /\ UNCHANGED <<now, pc, enemy, fights, rental_listings, disk>>

\* Property.add_upgrade
add_upgrade(prop, upgrade) ==
    IF Len(prop.upgrades) < max_upgrades(prop)
    THEN [prop EXCEPT !.upgrades = Append(prop.upgrades, upgrade)]
    ELSE prop

\* upgrade_property without the test for a fully upgraded property
upgrade_property_unchecked(p, idx, upgrade_idx, confirm) ==
    LET prop == p.properties[idx]
        upgrade == available_upgrades(property_type(prop))[upgrade_idx]
    IN  IF p.gold >= upgrade.cost /\ confirm
        THEN calculate_happiness(
                 [p EXCEPT !.gold = p.gold - upgrade.cost,
                           !.properties[idx] = add_upgrade(prop, upgrade_idx)])
        ELSE p

\* upgrade_property installing the upgrade without taking the gold
upgrade_property_free(p, idx, upgrade_idx, confirm) ==
    LET prop == p.properties[idx]
        upgrade == available_upgrades(property_type(prop))[upgrade_idx]
    IN  IF Len(prop.upgrades) >= max_upgrades(prop) THEN p
        ELSE IF p.gold >= upgrade.cost /\ confirm
        THEN calculate_happiness(
                 [p EXCEPT !.properties[idx] = add_upgrade(prop, upgrade_idx)])
        ELSE p

\* the player after upgrade_property with the two choices and the y/n answer
upgrade_property(p, idx, upgrade_idx, confirm) ==
    LET prop == p.properties[idx]
        upgrade == available_upgrades(property_type(prop))[upgrade_idx]
    IN  IF Len(prop.upgrades) >= max_upgrades(prop) THEN p
        ELSE IF p.gold >= upgrade.cost /\ confirm
        THEN calculate_happiness(
                 [p EXCEPT !.gold = p.gold - upgrade.cost,
                           !.properties[idx] = add_upgrade(prop, upgrade_idx)])
        ELSE p

UpgradeProperty ==
    /\ pc = "property_menu"
    /\ \E idx \in 1..Len(player.properties), confirm \in BOOLEAN :
          LET prop == player.properties[idx]
              ups == available_upgrades(property_type(prop))
              full == Len(prop.upgrades) >= max_upgrades(prop)
          IN  \E upgrade_idx \in 1..Len(ups) :
                 /\ (~full /\ player.gold >= ups[upgrade_idx].cost /\ confirm)
                        => Len(prop.upgrades) < MaxInstalled
                 /\ player' = upgrade_property(player, idx, upgrade_idx, confirm)
                 /\ last' = Did(IF full THEN "fully_upgraded"
                                ELSE IF player.gold >= ups[upgrade_idx].cost /\ ~confirm
                                THEN "declined" ELSE "buy_upgrade",
                                ~full /\ player.gold >= ups[upgrade_idx].cost /\ confirm,
                                ups[upgrade_idx].cost)
    /\ UNCHANGED <<now, pc, enemy, fights, rental_listings, disk>>

\* s without its idx-th element: list.pop(idx)
Pop(s, idx) == [i \in 1..(Len(s) - 1) |-> IF i < idx THEN s[i] ELSE s[i + 1]]

\* sell_property without its call of calculate_happiness
sell_property_stale(p, idx, confirm) ==
    LET sell_price == get_price_in_gold(p.properties[idx]) \div 2
    IN  IF confirm
        THEN [p EXCEPT !.gold = p.gold + sell_price,
                       !.properties = Pop(p.properties, idx)]
        ELSE p

\* the player after sell_property with the choice and the y/n answer
sell_property(p, idx, confirm) ==
    LET sell_price == get_price_in_gold(p.properties[idx]) \div 2
    IN  IF confirm
        THEN calculate_happiness([p EXCEPT !.gold = p.gold + sell_price,
                                           !.properties = Pop(p.properties, idx)])
        ELSE p

SellProperty ==
    /\ pc = "property_menu"
    /\ \E idx \in 1..Len(player.properties), confirm \in BOOLEAN :
          /\ player' = sell_property(player, idx, confirm)
          /\ last' = Did("sell_property", confirm,
                         get_price_in_gold(player.properties[idx]) \div 2)
    /\ UNCHANGED <<now, pc, enemy, fights, rental_listings, disk>>

\* positions in p.properties of the properties list_for_rent offers
available(p) ==
    SelectSeq([i \in 1..Len(p.properties) |-> i],
              LAMBDA i : ~p.properties[i].is_rented
                         /\ ~p.properties[i].listed_for_rent)

\* player and listings after list_for_rent with the choice and the rent typed
list_for_rent(p, listings, idx, rent) ==
    LET at == available(p)[idx]
    IN  IF rent > 0
        THEN [player |-> [p EXCEPT !.properties[at].listed_for_rent = TRUE,
                                   !.properties[at].rent_amount = rent],
              rental_listings |->
                  Append(listings, [owner |-> p.name,
                                    property |-> p.properties[at].id,
                                    rent |-> rent])]
        ELSE [player |-> p, rental_listings |-> listings]

\* the rents typed at the prompt: nothing (the suggested rent), 0, or 10
rent_inputs(prop) == {get_price_in_gold(prop) \div 10, 0, 10}

ListForRent ==
    /\ pc = "property_menu"
    /\ \E idx \in 1..Len(available(player)) :
          \E rent \in rent_inputs(player.properties[available(player)[idx]]) :
             LET r == list_for_rent(player, rental_listings, idx, rent)
             IN  /\ player' = r.player
                 /\ rental_listings' = r.rental_listings
                 /\ last' = Did("list_for_rent", rent > 0, rent)
    /\ UNCHANGED <<now, pc, enemy, fights, disk>>

\* the listed Property object after a tenant takes it
rented(prop, tenant) ==
    [prop EXCEPT !.is_rented = TRUE, !.rented_to = tenant,
                 !.listed_for_rent = FALSE]

\* player and listings after view_rental_listings with the choice and answer
view_rental_listings(p, listings, idx, confirm) ==
    LET listing == listings[idx]
    IN  IF listing.owner = p.name \/ p.gold < listing.rent \/ ~confirm
        THEN [player |-> p, rental_listings |-> listings]
        ELSE [player |->
                  [p EXCEPT !.gold = p.gold - listing.rent,
                            !.properties =
                                [i \in 1..Len(p.properties) |->
                                    IF p.properties[i].id = listing.property
                                    THEN rented(p.properties[i], p.name)
                                    ELSE p.properties[i]]],
              rental_listings |-> Pop(listings, idx)]

ViewRentalListings ==
    /\ pc = "property_menu"
    /\ \E idx \in 1..Len(rental_listings), confirm \in BOOLEAN :
          LET listing == rental_listings[idx]
              r == view_rental_listings(player, rental_listings, idx, confirm)
          IN  /\ player' = r.player
              /\ rental_listings' = r.rental_listings
              /\ last' = Did(IF listing.owner = player.name THEN "rent"
                             ELSE IF player.gold >= listing.rent /\ ~confirm
                             THEN "declined" ELSE "rent",
                             r.player # player, listing.rent)
    /\ UNCHANGED <<now, pc, enemy, fights, disk>>

----------------------------------------------------------------------------
(* combat(): entry, then one step per round of the while loop.             *)

\* main menu choice 3, up to the first round's prompt
Combat ==
    /\ pc = "main"
    /\ IF can_use_energy(player, now, 25)
       THEN /\ fights < MaxCombats
            /\ \E k \in 1..4 :
                  LET q == use_energy(player, now, 25)
                      e == enemies(q.level)[k]
                      fought == is_alive(e) /\ q.health > 0
                  IN  /\ player' = q
                      /\ enemy' = IF fought THEN e ELSE NoEnemy
                      /\ pc' = IF fought THEN "combat" ELSE "loop"
            /\ fights' = fights + 1
            /\ last' = Did("combat", TRUE, 25)
       ELSE /\ player' = use_energy(player, now, 25)
            /\ pc' = "loop"
            /\ last' = Did("combat", FALSE, 25)
            /\ UNCHANGED <<enemy, fights, disk>>
    /\ UNCHANGED <<now, rental_listings, disk>>

\* a round in which a victory pays the gold but grants no experience
AfterStrike_unrewarded(p, e, op, damage) ==
    IF ~is_alive(e)
    THEN /\ player' = [p EXCEPT !.gold = p.gold + e.gold_reward]
         /\ enemy' = NoEnemy
         /\ pc' = "loop"
         /\ last' = Did(op, TRUE, damage)
    ELSE \E dodged \in dodge_outcomes(p) :
            LET q == take_damage(p, e.damage, dodged)
            IN  /\ player' = q
                /\ enemy' = e
                /\ pc' = IF q.health <= 0 THEN "exited" ELSE "combat"
                /\ last' = Struck(op, damage, take_damage_result(p, e.damage, dodged))

\* a round after which a player at 0 health is returned to the play loop
AfterStrike_revived(p, e, op, damage) ==
    IF ~is_alive(e)
    THEN /\ player' = gain_experience([p EXCEPT !.gold = p.gold + e.gold_reward],
                                      e.exp_reward)
         /\ enemy' = NoEnemy
         /\ pc' = "loop"
         /\ last' = Did(op, TRUE, damage)
    ELSE \E dodged \in dodge_outcomes(p) :
            LET q == take_damage(p, e.damage, dodged)
            IN  /\ player' = q
                /\ enemy' = IF q.health <= 0 THEN NoEnemy ELSE e
                /\ pc' = IF q.health <= 0 THEN "loop" ELSE "combat"
                /\ last' = Struck(op, damage, take_damage_result(p, e.damage, dodged))

\* a round without the defeat check: the fight goes on at 0 health
AfterStrike_unchecked(p, e, op, damage) ==
    IF ~is_alive(e)
    THEN /\ player' = gain_experience([p EXCEPT !.gold = p.gold + e.gold_reward],
                                      e.exp_reward)
         /\ enemy' = NoEnemy
         /\ pc' = "loop"
         /\ last' = Did(op, TRUE, damage)
    ELSE \E dodged \in dodge_outcomes(p) :
            LET q == take_damage(p, e.damage, dodged)
            IN  /\ player' = q
                /\ enemy' = e
                /\ pc' = "combat"
                /\ last' = Struck(op, damage, take_damage_result(p, e.damage, dodged))

\* the rest of a round once the player's strike has landed: victory and its
\* rewards, or else the enemy's attack and the defeat check (exit(0))
AfterStrike(p, e, op, damage) ==
    IF ~is_alive(e)
    THEN /\ player' = gain_experience([p EXCEPT !.gold = p.gold + e.gold_reward],
                                      e.exp_reward)
         /\ enemy' = NoEnemy
         /\ pc' = "loop"
         /\ last' = Did(op, TRUE, damage)
    ELSE \E dodged \in dodge_outcomes(p) :
            LET q == take_damage(p, e.damage, dodged)
            IN  /\ player' = q
                /\ enemy' = e
                /\ pc' = IF q.health <= 0 THEN "exited" ELSE "combat"
                /\ last' = Struck(op, damage, take_damage_result(p, e.damage, dodged))

\* round choice 1
Attack ==
    /\ pc = "combat"
    /\ AfterStrike(player, enemy_take_damage(enemy, attack_damage(player)),
                   "attack", attack_damage(player))
    /\ UNCHANGED <<now, fights, rental_listings, disk>>

\* round choice 2
Cast ==
    /\ pc = "combat"
    /\ IF player.weapon # NoItem /\ weapon_mana_cost(player.weapon) > 0
          /\ can_use_mana(player, weapon_mana_cost(player.weapon))
       THEN AfterStrike(use_mana(player, weapon_mana_cost(player.weapon)),
                        enemy_take_damage(enemy, magic_damage(player)),
                        "cast", magic_damage(player))
       ELSE /\ last' = Did("cast", FALSE, 0)
            /\ UNCHANGED <<player, enemy, pc>>
    /\ UNCHANGED <<now, fights, rental_listings, disk>>

\* a flight during which the enemy lands a last blow
Flee_struck ==
    /\ pc = "combat"
    /\ pc' = "loop"
    /\ enemy' = NoEnemy
    /\ player' = take_damage(player, enemy.damage, FALSE)
    /\ last' = Did("flee", TRUE, 0)
    /\ UNCHANGED <<now, fights, rental_listings, disk>>

\* round choice 3
Flee ==
    /\ pc = "combat"
    /\ pc' = "loop"
    /\ enemy' = NoEnemy
    /\ last' = Did("flee", TRUE, 0)
    /\ UNCHANGED <<player, now, fights, rental_listings, disk>>

----------------------------------------------------------------------------
(* Persistence: to_dict, save_game, load_game, update_leaderboard.         *)

\* JSON null, Python None
Null == [none |-> TRUE]

\* dict.get(key, default)
Get(data, key, default) == IF key \in DOMAIN data THEN data[key] ELSE default

\* datetime.isoformat(): the clock written out field by field
isoformat(t) == [hour |-> t \div 60, minute |-> t % 60]

\* datetime.fromisoformat()
fromisoformat(text) == text.hour * 60 + text.minute

\* Weapon.to_dict
weapon_to_dict(w) ==
    [type |-> "weapon", name |-> Weapons[w].name, price |-> Weapons[w].price,
     damage |-> Weapons[w].damage, mana_cost |-> Weapons[w].mana_cost]

\* Armor.to_dict
armor_to_dict(a) ==
    [type |-> "armor", name |-> Armors[a].name, price |-> Armors[a].price,
     defense |-> Armors[a].defense]

\* PropertyUpgrade.to_dict, of upgrade u of a property of type ptype
upgrade_to_dict(ptype, u) ==
    [name |-> available_upgrades(ptype)[u].name,
     cost |-> available_upgrades(ptype)[u].cost,
     happiness_bonus |-> available_upgrades(ptype)[u].happiness_bonus]

\* Property.to_dict
property_to_dict(prop) ==
    [property_type |-> available_properties[prop.kind].property_type,
     name |-> available_properties[prop.kind].name,
     price_shillings |-> available_properties[prop.kind].price_shillings,
     price_pennies |-> available_properties[prop.kind].price_pennies,
     max_upgrades |-> available_properties[prop.kind].max_upgrades,
     upgrades |-> [i \in 1..Len(prop.upgrades) |->
                      upgrade_to_dict(property_type(prop), prop.upgrades[i])],
     is_rented |-> prop.is_rented,
     rented_to |-> prop.rented_to,
     rent_amount |-> prop.rent_amount,
     listed_for_rent |-> prop.listed_for_rent]

\* Player.to_dict
to_dict(p) ==
    [name |-> p.name,
     health |-> p.health, max_health |-> p.max_health,
     mana |-> p.mana, max_mana |-> p.max_mana,
     energy |-> p.energy, max_energy |-> p.max_energy,
     gold |-> p.gold,
     weapon |-> IF p.weapon # NoItem THEN weapon_to_dict(p.weapon) ELSE Null,
     armor |-> IF p.armor # NoItem THEN armor_to_dict(p.armor) ELSE Null,
     last_energy_update |-> isoformat(p.last_energy_update),
     experience |-> p.experience, level |-> p.level,
     strength |-> p.strength, agility |-> p.agility, vitality |-> p.vitality,
     properties |-> [i \in 1..Len(p.properties) |-> property_to_dict(p.properties[i])],
     happiness |-> p.happiness, max_happiness |-> p.max_happiness]

\* the keys load_game reads with data[...], in the order it assigns them
RequiredKeys ==
    << "name", "health", "max_health", "mana", "max_mana", "energy",
       "max_energy", "gold", "experience", "level", "last_energy_update" >>

\* Weapon(w['name'], ..., w.get('mana_cost', 0)): the catalogue's weapon
\* with these attributes
LoadedWeapon(w) ==
    CHOOSE i \in 1..Len(Weapons) :
        /\ Weapons[i].name = w.name
        /\ Weapons[i].price = w.price
        /\ Weapons[i].damage = w.damage
        /\ Weapons[i].mana_cost = Get(w, "mana_cost", 0)

\* Armor(a['name'], ...)
LoadedArmor(a) ==
    CHOOSE i \in 1..Len(Armors) :
        /\ Armors[i].name = a.name
        /\ Armors[i].price = a.price
        /\ Armors[i].defense = a.defense

\* a Property built without reading the rent keys of p_data
LoadedProperty_unlisted(p_data, id) ==
    LET kind == CHOOSE k \in 1..Len(available_properties) :
                    available_properties[k].name = p_data.name
        ups == available_upgrades(p_data.property_type)
        u_data == Get(p_data, "upgrades", << >>)
    IN  [id |-> id, kind |-> kind,
         upgrades |-> [i \in 1..Len(u_data) |->
                          CHOOSE j \in 1..Len(ups) : ups[j].name = u_data[i].name],
         is_rented |-> FALSE, rented_to |-> "", rent_amount |-> 0,
         listed_for_rent |-> FALSE]

\* the Property object load_game builds from p_data, a new object id
LoadedProperty(p_data, id) ==
    LET kind == CHOOSE k \in 1..Len(available_properties) :
                    /\ available_properties[k].property_type = p_data.property_type
                    /\ available_properties[k].name = p_data.name
                    /\ available_properties[k].price_shillings = p_data.price_shillings
                    /\ available_properties[k].price_pennies = p_data.price_pennies
                    /\ available_properties[k].max_upgrades = p_data.max_upgrades
        ups == available_upgrades(p_data.property_type)
        u_data == Get(p_data, "upgrades", << >>)
    IN  [id |-> id, kind |-> kind,
         upgrades |-> [i \in 1..Len(u_data) |->
                          CHOOSE j \in 1..Len(ups) :
                              /\ ups[j].name = u_data[i].name
                              /\ ups[j].cost = u_data[i].cost
                              /\ ups[j].happiness_bonus = u_data[i].happiness_bonus],
         is_rented |-> Get(p_data, "is_rented", FALSE),
         rented_to |-> Get(p_data, "rented_to", ""),
         rent_amount |-> Get(p_data, "rent_amount", 0),
         listed_for_rent |-> Get(p_data, "listed_for_rent", FALSE)]

\* the data[...] assignments of load_game, in order up to the first key
\* that is missing (KeyError)
load_required(p, data) ==
    LET missing == {i \in 1..Len(RequiredKeys) : RequiredKeys[i] \notin DOMAIN data}
        stop == IF missing = {} THEN Len(RequiredKeys) + 1
                ELSE CHOOSE i \in missing : \A j \in missing : i <= j
        read == {RequiredKeys[i] : i \in 1..(stop - 1)}
    IN  [player |-> [k \in DOMAIN p |->
                        IF k \notin read THEN p[k]
                        ELSE IF k = "last_energy_update" THEN fromisoformat(data[k])
                        ELSE data[k]],
         ok |-> missing = {}]

\* the optional keys read with a max_happiness default of 0
load_optional_zero(p, data) ==
    [p EXCEPT !.strength = Get(data, "strength", 0),
              !.agility = Get(data, "agility", 0),
              !.vitality = Get(data, "vitality", 0),
              !.happiness = Get(data, "happiness", 0),
              !.max_happiness = Get(data, "max_happiness", 0)]

\* the data.get(...) assignments of load_game
load_optional(p, data) ==
    [p EXCEPT !.strength = Get(data, "strength", 0),
              !.agility = Get(data, "agility", 0),
              !.vitality = Get(data, "vitality", 0),
              !.happiness = Get(data, "happiness", 0),
              !.max_happiness = Get(data, "max_happiness", 100)]

\* the loop over data['properties']: each Property is appended
load_properties(p, data) ==
    LET p_list == Get(data, "properties", << >>)
    IN  [p EXCEPT !.properties =
            p.properties \o [i \in 1..Len(p_list) |->
                                LoadedProperty(p_list[i], Len(p.properties) + i)]]

\* the body of load_game's try block once the file has been parsed
decode(p, data) ==
    LET required == load_required(p, data)
        p3 == load_properties(load_optional(required.player, data), data)
        p4 == IF "weapon" \in DOMAIN data /\ data.weapon # Null
              THEN [p3 EXCEPT !.weapon = LoadedWeapon(data.weapon)] ELSE p3
        p5 == IF "armor" \in DOMAIN data /\ data.armor # Null
              THEN [p4 EXCEPT !.armor = LoadedArmor(data.armor)] ELSE p4
    IN  IF ~required.ok THEN required
        ELSE IF "weapon" \notin DOMAIN data THEN [player |-> p3, ok |-> FALSE]
        ELSE IF "armor" \notin DOMAIN data THEN [player |-> p4, ok |-> FALSE]
        ELSE [player |-> p5, ok |-> TRUE]

\* load_game taking a missing file for a new character's save
load_game_lenient(p, file) ==
    IF ~file.exists THEN [player |-> p, ok |-> TRUE]
    ELSE IF ~file.json THEN [player |-> p, ok |-> FALSE]
    ELSE decode(p, file.data)

\* load_game on player p: the player it leaves and the value it returns
\* (False after FileNotFoundError or any other exception)
load_game(p, file) ==
    IF ~file.exists THEN [player |-> p, ok |-> FALSE]
    ELSE IF ~file.json THEN [player |-> p, ok |-> FALSE]
    ELSE decode(p, file.data)

\* an entry of leaderboard.json
player_entry(p) ==
    [name |-> p.name, level |-> p.level, experience |-> p.experience,
     gold |-> p.gold, max_health |-> p.max_health,
     weapon |-> IF p.weapon # NoItem THEN Weapons[p.weapon].name ELSE "None",
     armor |-> IF p.armor # NoItem THEN Armors[p.armor].name ELSE "None"]

\* Python's str.lower() on the names of the model
lower(name) == IF name = "Hero" THEN "hero" ELSE name

\* the entries after an upsert that matches names whatever their case
upsert_caseless(entries, p) ==
    LET hits == {i \in 1..Len(entries) : lower(entries[i].name) = lower(p.name)}
    IN  IF hits = {} THEN Append(entries, player_entry(p))
        ELSE LET first == CHOOSE i \in hits : \A j \in hits : i <= j
             IN  [entries EXCEPT ![first] = player_entry(p)]

\* the entries after update_leaderboard's replace-or-append
upsert(entries, p) ==
    LET hits == {i \in 1..Len(entries) : entries[i].name = p.name}
    IN  IF hits = {} THEN Append(entries, player_entry(p))
        ELSE LET first == CHOOSE i \in hits : \A j \in hits : i <= j
             IN  [entries EXCEPT ![first] = player_entry(p)]

\* leaderboard.json after update_leaderboard: a missing file counts as an
\* empty list, unparsable text leaves the file as it is
update_leaderboard(file, p) ==
    IF file.exists /\ ~file.json THEN file
    ELSE File([entries |-> upsert(IF file.exists THEN file.data.entries ELSE << >>, p)])

\* the files after save_game
save_game(d, p) ==
    [save_file |-> File(to_dict(p)),
     leaderboard_file |-> update_leaderboard(d.leaderboard_file, p)]

----------------------------------------------------------------------------
(* Sessions.                                                               *)

\* Characters saved by earlier sessions, as load_game restores them.
\* Adept: two Dragons, two Dark Mages and a Goblin beaten (320 experience,
\* 470 gold), Fire Staff and Leather Armor bought, strength and agility
\* trained once each.
Adept ==
    [NewPlayer("Hero", 0) EXCEPT
        !.level = 4, !.experience = 320,
        !.max_health = 160, !.health = 160,
        !.max_mana = 130, !.mana = 130,
        !.max_energy = 130, !.energy = 130,
        !.gold = 10, !.weapon = 4, !.armor = 1,
        !.strength = 1, !.agility = 1]

\* Tired: a new character who fled four fights and waited an hour
Tired == [NewPlayer("Hero", 0) EXCEPT !.energy = 20]

\* play() after main_menu: a new game, or the saved character loaded
Init ==
    /\ player \in {NewPlayer("Hero", 0), Adept, Tired}
    /\ now = 0
    /\ pc = "loop"
    /\ enemy = NoEnemy
    /\ fights = 0
    /\ rental_listings = << >>
    /\ disk = NoDisk
    /\ last = Did("main_menu", TRUE, 0)

Next ==
    \/ Tick
    \/ DisplayStatus
    \/ Rest
    \/ Combat
    \/ Attack
    \/ Cast
    \/ Flee

Spec == Init /\ [][Next]_vars

----------------------------------------------------------------------------
(* Sessions of seasoned characters: the play loop above, entered with      *)
(* saved characters whose equipment and stats reach the rest of combat(),  *)
(* and played within a quarter of an hour (no energy regenerates).         *)

\* Spent: Adept after twelve spells cast in fights fled from
Spent == [Adept EXCEPT !.mana = 10]

\* Knight: a level-6 character with the Steel Sword (no mana cost) and Steel
\* Armor, vitality trained twice, strength twenty times, and agility far
\* past the dodge cap
Knight ==
    [NewPlayer("Hero", 0) EXCEPT
        !.level = 6, !.experience = 550,
        !.max_health = 200, !.health = 200,
        !.max_mana = 150, !.mana = 150,
        !.max_energy = 150, !.energy = 150,
        !.gold = 20, !.weapon = 3, !.armor = 3,
        !.strength = 20, !.vitality = 2, !.agility = 60]

InitArena ==
    /\ player \in {NewPlayer("Hero", 0), Spent, Knight}
    /\ now = 0
    /\ pc = "loop"
    /\ enemy = NoEnemy
    /\ fights = 0
    /\ rental_listings = << >>
    /\ disk = NoDisk
    /\ last = Did("main_menu", TRUE, 0)

NextArena ==
    \/ DisplayStatus
    \/ Rest
    \/ Combat
    \/ Attack
    \/ Cast
    \/ Flee

SpecArena == InitArena /\ [][NextArena]_vars

\* the arena sessions of a player who, asked for a round's action, does not
\* withhold choice 1 (Attack) for ever
SpecDuel == InitArena /\ [][NextArena]_vars /\ WF_vars(Attack)

----------------------------------------------------------------------------
(* A session of the shops, the gym and the property market.                *)

\* Landlord: four Dragons and three Dark Mages beaten (550 experience, 810
\* gold), Iron Sword and Leather Armor bought
Landlord ==
    [NewPlayer("Merlin", 0) EXCEPT
        !.level = 6, !.experience = 550,
        !.max_health = 200, !.health = 200,
        !.max_mana = 150, !.mana = 150,
        !.max_energy = 150, !.energy = 150,
        !.gold = 700, !.weapon = 2, !.armor = 1]

InitMarket ==
    /\ player = Landlord
    /\ now = 0
    /\ pc = "loop"
    /\ enemy = NoEnemy
    /\ fights = 0
    /\ rental_listings = << >>
    /\ disk = NoDisk
    /\ last = Did("main_menu", TRUE, 0)

NextMarket ==
    \/ DisplayStatus
    \/ OpenMenu
    \/ OpenPropertyMenu
    \/ LeaveMenu
    \/ BuyWeapon
    \/ BuyArmor
    \/ Train
    \/ BrowseProperties
    \/ UpgradeProperty
    \/ SellProperty
    \/ ListForRent
    \/ ViewRentalListings

SpecMarket == InitMarket /\ [][NextMarket]_vars

----------------------------------------------------------------------------
(* A session of a character of property: upgrades, sales, and the gym's    *)
(* reading of the training multiplier.                                     *)

\* Baron: Landlord's later self, owner of the Small Castle and the Grand
\* Castle (happiness 50 + 50)
Baron ==
    [Landlord EXCEPT
        !.gold = 250,
        !.properties = << NewProperty(1, 5), NewProperty(2, 6) >>,
        !.happiness = 100]

InitEstate ==
    /\ player = Baron
    /\ now = 0
    /\ pc = "loop"
    /\ enemy = NoEnemy
    /\ fights = 0
    /\ rental_listings = << >>
    /\ disk = NoDisk
    /\ last = Did("main_menu", TRUE, 0)

NextEstate ==
    \/ DisplayStatus
    \/ OpenMenu
    \/ OpenPropertyMenu
    \/ LeaveMenu
    \/ UpgradeProperty
    \/ SellProperty

SpecEstate == InitEstate /\ [][NextEstate]_vars

----------------------------------------------------------------------------
(* A session at the training gym, of characters whose properties give them *)
(* full, partial and (once sold) no happiness.                              *)

\* Squire: owner of the Stone Manor with a Library (happiness 25 + 10)
Squire ==
    [Landlord EXCEPT
        !.name = "Squire",
        !.gold = 450,
        !.properties = << [NewProperty(1, 3) EXCEPT !.upgrades = << 1 >>] >>,
        !.happiness = 35]

InitGym ==
    /\ player \in {[Baron EXCEPT !.gold = 450], Squire}
    /\ now = 0
    /\ pc = "loop"
    /\ enemy = NoEnemy
    /\ fights = 0
    /\ rental_listings = << >>
    /\ disk = NoDisk
    /\ last = Did("main_menu", TRUE, 0)

NextGym ==
    \/ DisplayStatus
    \/ OpenMenu
    \/ OpenPropertyMenu
    \/ LeaveMenu
    \/ Train
    \/ SellProperty

SpecGym == InitGym /\ [][NextGym]_vars

----------------------------------------------------------------------------
(* Runs of the program one after another over the same two files: the      *)
(* start menu, the save and exit choices of the play loop, and the next    *)
(* run.  pc = "menu" is the prompt of main_menu.                           *)

\* the names typed at "Enter your character name" (nothing keeps "Hero")
Names == {"Hero", "hero"}

\* main_menu choice 1
NewGame ==
    /\ pc = "menu"
    /\ \E name \in Names :
          player' = [player EXCEPT !.name = name]
    /\ pc' = "loop"
    /\ last' = Did("new_game", TRUE, 0)
    /\ UNCHANGED <<now, enemy, fights, rental_listings, disk>>

\* main_menu choice 2: play() returns when load_game fails
LoadGame ==
    /\ pc = "menu"
    /\ LET r == load_game(player, disk.save_file)
       IN  /\ player' = r.player
           /\ pc' = IF r.ok THEN "loop" ELSE "exited"
           /\ last' = Did("load_game", r.ok, 0)
    /\ UNCHANGED <<now, enemy, fights, rental_listings, disk>>

\* play loop choice 8
SaveGame ==
    /\ pc = "main"
    /\ disk' = save_game(disk, player)
    /\ pc' = "loop"
    /\ last' = Did("save_game", TRUE, 0)
    /\ UNCHANGED <<player, now, enemy, fights, rental_listings>>

\* play loop choice 9, with the answer to "Save game before exit?"
Quit ==
    /\ pc = "main"
    /\ \E save \in BOOLEAN :
          /\ disk' = IF save THEN save_game(disk, player) ELSE disk
          /\ last' = Did("exit", save, 0)
    /\ pc' = "exited"
    /\ UNCHANGED <<player, now, enemy, fights, rental_listings>>

\* the program is run again, half of MaxTime later: Game() with a new
\* Player() and a new PropertyMarket(), the files as the last run left them
Restart ==
    /\ pc = "exited"
    /\ LET d == MaxTime \div 2
       IN  /\ now + d <= MaxTime
           /\ now' = now + d
           /\ player' = NewPlayer("Hero", now + d)
    /\ pc' = "menu"
    /\ enemy' = NoEnemy
    /\ rental_listings' = << >>
    /\ last' = Did("start", TRUE, 0)
    /\ UNCHANGED <<fights, disk>>

\* Legacy: a save written by an older version of the game, before combat
\* stats and properties existed and before weapons had a mana cost
Legacy ==
    [name |-> "Hero",
     health |-> 180, max_health |-> 200,
     mana |-> 150, max_mana |-> 150,
     energy |-> 75, max_energy |-> 150,
     gold |-> 700,
     weapon |-> [type |-> "weapon", name |-> "Iron Sword", price |-> 150,
                 damage |-> 15],
     armor |-> Null,
     last_energy_update |-> isoformat(0),
     experience |-> 550, level |-> 6]

\* Truncated: a save cut off after its first keys
Truncated == [name |-> "Ghost", health |-> 1, max_health |-> 1]

\* Garbled: a save file whose text is not JSON
Garbled == [exists |-> TRUE, json |-> FALSE, data |-> Null]

\* a leaderboard left by other characters
OldBoard ==
    << [name |-> "Merlin", level |-> 6, experience |-> 550, gold |-> 700,
        max_health |-> 200, weapon |-> "Iron Sword", armor |-> "Leather Armor"],
       [name |-> "hero", level |-> 2, experience |-> 120, gold |-> 30,
        max_health |-> 120, weapon |-> "None", armor |-> "None"] >>

InitSaves ==
    /\ player = NewPlayer("Hero", 0)
    /\ now = 0
    /\ pc = "menu"
    /\ enemy = NoEnemy
    /\ fights = 0
    /\ rental_listings = << >>
    /\ disk \in [save_file : {NoFile, File(Legacy), File(Truncated), Garbled},
                  leaderboard_file : {NoFile, File([entries |-> OldBoard])}]
    /\ last = Did("start", TRUE, 0)

NextSaves ==
    \/ NewGame
    \/ LoadGame
    \/ SaveGame
    \/ Quit
    \/ Restart
    \/ DisplayStatus
    \/ OpenPropertyMenu
    \/ LeaveMenu
    \/ BrowseProperties
    \/ UpgradeProperty
    \/ ListForRent

SpecSaves == InitSaves /\ [][NextSaves]_vars

----------------------------------------------------------------------------
(* A Player object whose pool methods are called directly, at any clock.   *)

\* pool levels the object starts from
StartEnergy == {0, 20, 95, 100}
StartMana == {15}
\* the amounts the program spends: a spell's mana_cost (5 or 10), a combat's
\* energy (25)
Amounts == {5, 10, 25}
WaitSteps == {1, 15}

Wait ==
    /\ \E d \in WaitSteps :
          /\ now + d <= MaxWait
          /\ now' = now + d
    /\ last' = Did("wait", TRUE, 0)
    /\ UNCHANGED <<player, pc, enemy, fights, rental_listings, disk>>

UpdateEnergy ==
    /\ player' = update_energy(player, now)
    /\ last' = Did("update_energy", TRUE, energy_to_add(player, now))
    /\ UNCHANGED <<now, pc, enemy, fights, rental_listings, disk>>

UseEnergy ==
    /\ \E amount \in Amounts :
          /\ player' = use_energy(player, now, amount)
          /\ last' = Did("use_energy", can_use_energy(player, now, amount), amount)
    /\ UNCHANGED <<now, pc, enemy, fights, rental_listings, disk>>

UseMana ==
    /\ \E amount \in Amounts :
          /\ player' = use_mana(player, amount)
          /\ last' = Did("use_mana", can_use_mana(player, amount), amount)
    /\ UNCHANGED <<now, pc, enemy, fights, rental_listings, disk>>

InitPools ==
    /\ \E e \in StartEnergy, m \in StartMana :
          player = [NewPlayer("Hero", 0) EXCEPT !.energy = e, !.mana = m]
    /\ now = 0
    /\ pc = "unit"
    /\ enemy = NoEnemy
    /\ fights = 0
    /\ rental_listings = << >>
    /\ disk = NoDisk
    /\ last = Did("init", TRUE, 0)

NextPools == Wait \/ UpdateEnergy \/ UseEnergy \/ UseMana

SpecPools == InitPools /\ [][NextPools]_vars

----------------------------------------------------------------------------
(* A new Player object handed experience grants.                           *)

\* the four enemies' rewards, and the 250 of a large grant
ExpGrants == {20, 35, 50, 100, 250}

GainExperience ==
    /\ player.level < MaxLevel
    /\ \E exp \in ExpGrants :
          /\ player' = gain_experience(player, exp)
          /\ last' = Did("gain_experience", TRUE, exp)
    /\ UNCHANGED <<now, pc, enemy, fights, rental_listings, disk>>

InitLevel ==
    /\ player = NewPlayer("Hero", 0)
    /\ now = 0
    /\ pc = "unit"
    /\ enemy = NoEnemy
    /\ fights = 0
    /\ rental_listings = << >>
    /\ disk = NoDisk
    /\ last = Did("init", TRUE, 0)

NextLevel == GainExperience

SpecLevel == InitLevel /\ [][NextLevel]_vars

----------------------------------------------------------------------------
(* Properties.                                                             *)

\* the energy update_energy is to leave at clock t: 5 per full 15 minutes
\* since last_energy_update, clamped at max_energy
Regenerated(p, t) ==
    Min(p.max_energy, p.energy + 5 * ((t - p.last_energy_update) \div 15))

\* C1: in every reachable state of a session each pool satisfies
\* 0 <= current <= max (health, mana and energy)
PoolsWithinBounds ==
    /\ 0 <= player.health /\ player.health <= player.max_health
    /\ 0 <= player.mana /\ player.mana <= player.max_mana
    /\ 0 <= player.energy /\ player.energy <= player.max_energy

\* C1 witness: an enemy's blow larger than the health left has been taken
\* (the session ended in defeat) after energy was spent on the fight
HealthDrained ==
    /\ pc = "exited"
    /\ player.health = 0
    /\ player.energy < player.max_energy

SpendOps == {"buy_weapon", "buy_armor", "train", "buy_property", "buy_upgrade", "rent"}

\* C2 as stated: every currency-spending step fails, with the player
\* unchanged, iff the price exceeds the gold held, and otherwise deducts
\* exactly the price; the gold is never negative
SpendingDeductsExactlyPrice ==
    [][last'.op \in SpendOps =>
          /\ ~last'.ok <=> last'.amt > player.gold
          /\ ~last'.ok => player' = player
          /\ last'.ok => player'.gold = player.gold - last'.amt
          /\ player'.gold >= 0]_vars

\* the half price credited for the item a weapon or armor purchase replaces
Refund ==
    IF last'.op = "buy_weapon" /\ player.weapon # NoItem
    THEN Weapons[player.weapon].price \div 2
    ELSE IF last'.op = "buy_armor" /\ player.armor # NoItem
    THEN Armors[player.armor].price \div 2
    ELSE 0

\* the listing chosen in view_rental_listings is one the player posted
OwnListing ==
    /\ last'.op = "rent"
    /\ \E i \in 1..Len(rental_listings) :
          /\ rental_listings[i].owner = player.name
          /\ rental_listings[i].rent = last'.amt

\* C2 as amended: a spending step fails, with the player unchanged, iff the
\* price exceeds the gold held or the listing to rent is the player's own;
\* otherwise it deducts the price and credits half the price of the weapon
\* or armor replaced; a declined confirmation or a fully upgraded property
\* changes nothing; the gold is never negative
SpendingIsAllOrNothing ==
    [][/\ last'.op \in SpendOps =>
             /\ ~last'.ok <=> (last'.amt > player.gold \/ OwnListing)
             /\ ~last'.ok => player' = player
             /\ last'.ok => player'.gold = player.gold - last'.amt + Refund
             /\ player'.gold >= 0
       /\ last'.op \in {"declined", "fully_upgraded"} => player' = player]_vars

\* C2 witness: a weapon was bought and the refund for the old one left the
\* player with more gold than the session began with
BoughtWithRefund ==
    /\ last.op = "buy_weapon"
    /\ last.ok
    /\ player.gold > Landlord.gold

\* C3: when gain_experience returns no further level-up is eligible
\* (experience is below level x 100); 250 experience granted at level 1
\* with 0 experience ends at level 3 with the pools at their level-3 maximums
GainExperienceAppliesEveryLevelUp ==
    last.op = "gain_experience" =>
        /\ player.experience < player.level * 100
        /\ (player.experience = 250 /\ last.amt = 250) =>
               /\ player.level = 3
               /\ player.health = 140 /\ player.max_health = 140
               /\ player.mana = 120 /\ player.max_mana = 120
               /\ player.energy = 120 /\ player.max_energy = 120

\* C4: update_energy leaves min(max_energy, energy + 5 * floor(m / 15)) for
\* m minutes elapsed, and changes nothing when m < 15
RegenerationPerInterval ==
    [][last'.op = "update_energy" =>
          /\ player'.energy = Regenerated(player, now)
          /\ last'.amt = 5 * ((now - player.last_energy_update) \div 15)
          /\ now - player.last_energy_update < 15 => player' = player]_vars

\* C4 witness: two full intervals were credited at once and the cap clamped
\* the result
RegeneratedToCap ==
    /\ last.op = "update_energy"
    /\ last.amt = 10
    /\ player.energy = player.max_energy
    /\ player.last_energy_update = 30

\* C5: a call of update_energy (directly or through use_energy) leaves
\* last_energy_update <= now and less than 15 minutes behind it, with the
\* same remainder of the elapsed time modulo 15 as before
PartialIntervalKept ==
    [][last'.op \in {"update_energy", "use_energy"} =>
          /\ player'.last_energy_update <= now
          /\ now - player'.last_energy_update < 15
          /\ (now - player'.last_energy_update) % 15
                 = (now - player.last_energy_update) % 15]_vars

\* C5 witness: intervals were consumed and minutes of a partial one remain
RemainderLeft ==
    /\ last.op = "update_energy"
    /\ last.amt > 0
    /\ now - player.last_energy_update > 0

\* C6: at a fixed clock a second update_energy returns 0 and changes
\* neither energy nor last_energy_update
RegenerationIdempotent ==
    LET once == update_energy(player, now)
    IN  /\ energy_to_add(once, now) = 0
        /\ update_energy(once, now) = once

\* C6 witness: update_energy has just added energy, and a second call at
\* this clock has nothing to add
RegeneratedOnce ==
    /\ last.op = "update_energy"
    /\ last.amt > 0
    /\ player.energy < player.max_energy
    /\ energy_to_add(player, now) = 0

\* C7: for query times t1 <= t2 from the same start the gain at t2 is at
\* least the gain at t1, and below the cap a query at t1 followed by one at
\* t2 adds up to the single query at t2
RegenerationMonotonic ==
    \A t1, t2 \in now..MaxWait :
        t1 <= t2 =>
            /\ energy_to_add(player, t1) <= energy_to_add(player, t2)
            /\ update_energy(player, t1).energy <= update_energy(player, t2).energy
            /\ player.energy + energy_to_add(player, t2) <= player.max_energy =>
                   LET first == update_energy(player, t1)
                   IN  /\ energy_to_add(player, t1) + energy_to_add(first, t2)
                              = energy_to_add(player, t2)
                       /\ update_energy(first, t2) = update_energy(player, t2)

\* C7 witness: update_energy was queried twice below the cap, at 15..29
\* minutes and again from minute 30 on, and each query added one interval
QueriedTwice ==
    /\ last.op = "update_energy"
    /\ last.amt = 5
    /\ player.last_energy_update = 30
    /\ player.energy = 30

\* the player fields other than f and g are the same in p and q
SameExcept(p, q, f, g) ==
    \A k \in DOMAIN p : k \notin {f, g} => p[k] = q[k]

\* C8: use_energy regenerates first and then subtracts exactly the amount if
\* the regenerated energy covers it, else leaves the regenerated energy;
\* use_mana subtracts exactly the amount if mana covers it, else changes
\* nothing; either reports which
SpendPoolAllOrNothing ==
    [][/\ last'.op = "use_energy" =>
             /\ last'.ok <=> Regenerated(player, now) >= last'.amt
             /\ player'.energy = IF last'.ok
                                 THEN Regenerated(player, now) - last'.amt
                                 ELSE Regenerated(player, now)
             /\ SameExcept(player, player', "energy", "last_energy_update")
       /\ last'.op = "use_mana" =>
             /\ last'.ok <=> player.mana >= last'.amt
             /\ player'.mana = IF last'.ok THEN player.mana - last'.amt
                               ELSE player.mana
             /\ SameExcept(player, player', "mana", "mana")]_vars

\* C8 witness: 25 energy was spent out of exactly 25, energy regenerated by
\* the call's own update
SpentRegeneratedEnergy ==
    /\ last.op = "use_energy"
    /\ last.ok
    /\ last.amt = 25
    /\ player.energy = 0
    /\ player.last_energy_update > 0

\* C9: combat() with less than 25 regenerated energy returns with no enemy
\* and no round, health, mana, gold, experience and level unchanged; with
\* 25 or more it deducts exactly 25 before the first round
CombatCostsEnergy ==
    [][last'.op = "combat" =>
          /\ SameExcept(player, player', "energy", "last_energy_update")
          /\ IF Regenerated(player, now) < 25
             THEN /\ ~last'.ok
                  /\ player'.energy = Regenerated(player, now)
                  /\ enemy' = NoEnemy
                  /\ pc' = "loop"
             ELSE /\ last'.ok
                  /\ player'.energy = Regenerated(player, now) - 25
                  /\ enemy' \in {enemies(player.level)[k] : k \in 1..4}
                  /\ pc' = "combat"]_vars

\* C9 witness: a combat was refused for lack of energy
CombatRefused ==
    /\ last.op = "combat"
    /\ ~last.ok
    /\ enemy = NoEnemy
    /\ pc = "loop"

\* the damage of an Attack: 10 + weapon damage + 3 per strength point
AttackValue(p) ==
    10 + (IF p.weapon = NoItem THEN 0 ELSE Weapons[p.weapon].damage) + 3 * p.strength

\* C10: an Attack deals 10 + weapon damage + strength bonus, a successful
\* Cast that value times 1.5 truncated (25 and 37 for weapon damage 15 and
\* strength 0), and the enemy is left with max(0, health - damage)
StrikeDamage ==
    [][(last'.op \in {"attack", "cast"} /\ last'.ok) =>
          LET dealt == IF last'.op = "attack" THEN AttackValue(player)
                       ELSE (AttackValue(player) * 3) \div 2
              left == Max(0, enemy.health - dealt)
          IN  /\ last'.amt = dealt
              /\ IF left = 0 THEN pc' = "loop" /\ enemy' = NoEnemy
                 ELSE enemy'.health = left
              /\ attack_damage([Tired EXCEPT !.weapon = 2]) = 25
              /\ magic_damage([Tired EXCEPT !.weapon = 2]) = 37]_vars

\* C10 witness: a spell cast with the Fire Staff at strength 1 dealt
\* 79 = trunc(53 x 1.5) and the enemy survived it
TruncatedSpell ==
    /\ last.op = "cast"
    /\ last.ok
    /\ last.amt = 79
    /\ pc = "combat"
    /\ enemy.health > 0

\* the mana cost of the weapon held: 0 with no weapon
ManaCost(p) == IF p.weapon = NoItem THEN 0 ELSE Weapons[p.weapon].mana_cost

\* C11: a Cast goes through only with a weapon whose mana_cost is above 0 and
\* mana to cover it, and then spends exactly that mana (a victory's level-up
\* refills the pool afterwards); otherwise the round is replayed: no damage
\* to the enemy, no enemy attack, player and enemy unchanged
CastNeedsMana ==
    [][last'.op = "cast" =>
          IF ManaCost(player) > 0 /\ player.mana >= ManaCost(player)
          THEN /\ last'.ok
               /\ player'.level = player.level =>
                      player'.mana = player.mana - ManaCost(player)
               /\ player'.level # player.level => pc' = "loop"
               /\ enemy' # enemy
          ELSE /\ ~last'.ok
               /\ ~last'.hit.struck
               /\ player' = player
               /\ enemy' = enemy
               /\ pc' = "combat"]_vars

\* C11 witness: with the Fire Staff in hand a Cast was refused for lack of
\* mana, the last 10 mana having been spent on an earlier one
CastOutOfMana ==
    /\ last.op = "cast"
    /\ ~last.ok
    /\ player.weapon = 4
    /\ player.mana = 0
    /\ pc = "combat"

\* C12: Flee ends the encounter at once: back at the play loop with no
\* enemy, no enemy attack, and the player exactly as the round began (no
\* reward, health, mana, gold, experience and level untouched)
FleeEndsEncounter ==
    [][last'.op = "flee" =>
          /\ pc' = "loop"
          /\ enemy' = NoEnemy
          /\ ~last'.hit.struck
          /\ player' = player]_vars

\* C12 witness: the player fled a fight after being wounded in it
FledWounded ==
    /\ last.op = "flee"
    /\ pc = "loop"
    /\ enemy = NoEnemy
    /\ player.health < player.max_health
    /\ fights = 1

\* the step is a strike that takes the enemy's health to 0
Victory ==
    /\ pc = "combat"
    /\ last'.op \in {"attack", "cast"}
    /\ last'.ok
    /\ enemy.health <= last'.amt

\* C13: a strike that takes the enemy to 0 health ends the encounter in that
\* round: the gold rises by the enemy's gold reward, gain_experience is run
\* with the enemy's experience reward, the enemy does not attack; and no
\* other step (flight, defeat, or anything after the encounter) changes gold,
\* experience or level
VictoryRewards ==
    [][IF Victory
       THEN /\ pc' = "loop"
            /\ enemy' = NoEnemy
            /\ ~last'.hit.struck
            /\ player'.gold = player.gold + enemy.gold_reward
            /\ player'.experience = player.experience + enemy.exp_reward
            /\ player' = gain_experience(
                   [player EXCEPT
                       !.gold = player.gold + enemy.gold_reward,
                       !.mana = IF last'.op = "cast"
                                THEN player.mana - ManaCost(player)
                                ELSE player.mana],
                   enemy.exp_reward)
       ELSE /\ player'.gold = player.gold
            /\ player'.experience = player.experience
            /\ player'.level = player.level]_vars

\* C13 witness: a Dragon was beaten and its 100 experience brought a level-up
WonAndLevelled ==
    /\ last.op = "attack"
    /\ pc = "loop"
    /\ enemy = NoEnemy
    /\ player.experience = Spent.experience + 100
    /\ player.gold = Spent.gold + 150
    /\ player.level = Spent.level + 1

\* C14: an undodged enemy attack inflicts max(1, enemy damage - (armor
\* defense + 2 per vitality point)) and leaves max(0, health - that), so it
\* always lowers the health; 8 damage on no armor and no vitality inflicts 8
EnemyDamageFloor ==
    [][(last'.hit.struck /\ ~last'.hit.dodged) =>
          LET total_defense ==
                  (IF player.armor = NoItem THEN 0 ELSE Armors[player.armor].defense)
                      + 2 * player.vitality
              inflicted == Max(1, enemy.damage - total_defense)
          IN  /\ last'.hit.actual_damage = inflicted
              /\ player'.health = Max(0, player.health - inflicted)
              /\ player'.health < player.health
              /\ actual_damage(NewPlayer("Hero", 0), 8) = 8]_vars

\* C14 witness: armor and vitality outweighed the enemy's damage and the
\* blow still cost 1 health
GlancingBlow ==
    /\ last.hit.struck
    /\ ~last.hit.dodged
    /\ last.hit.actual_damage = 1
    /\ player.armor # NoItem
    /\ player.vitality > 0

\* C15: the number of rolls out of 100 that dodge is min(2 x agility, 50):
\* never above 50, and none at agility 0; a dodged attack reports 0 damage
\* and leaves the health as it was, whatever the armor and vitality
DodgeChanceCapped ==
    /\ [](LET chance == Cardinality({roll \in 1..100 : check_dodge(player, roll)})
          IN  /\ chance = Min(2 * player.agility, 50)
              /\ chance <= 50
              /\ player.agility = 0 => chance = 0)
    /\ [][last'.hit.dodged =>
              /\ player.agility > 0
              /\ last'.hit.struck
              /\ last'.hit.actual_damage = 0
              /\ player'.health = player.health]_vars

\* C15 witness: a character with agility past the cap, in armor, dodged
DodgedInArmor ==
    /\ last.hit.dodged
    /\ player.agility > 25
    /\ player.armor # NoItem
    /\ player.vitality > 0
    /\ pc = "combat"

\* C16: the session is over exactly when the player's health is 0, which
\* only an enemy attack brings about, and no step of any kind is taken from
\* there
DefeatIsTerminal ==
    /\ [](player.health = 0 <=> pc = "exited")
    /\ [][/\ pc # "exited"
          /\ pc' = "exited" => (last'.hit.struck /\ ~last'.hit.dodged)]_vars

\* C16 witness: an enemy's blow ended the session
Defeated ==
    /\ pc = "exited"
    /\ last.op \in {"attack", "cast"}
    /\ last.hit.struck
    /\ last.hit.actual_damage >= player.health + 1
    /\ enemy.health > 0

\* the happiness of a property: its type's base plus its upgrades' bonuses
PropertyHappiness(prop) ==
    LET ptype == available_properties[prop.kind].property_type
        ups == available_upgrades(ptype)
    IN  base_happiness(ptype)
            + SumTo([i \in 1..Len(prop.upgrades) |-> ups[prop.upgrades[i]].happiness_bonus],
                    Len(prop.upgrades))

\* the summed happiness of the properties owned, before any clamp
TotalHappiness(p) ==
    SumTo([i \in 1..Len(p.properties) |-> PropertyHappiness(p.properties[i])],
          Len(p.properties))

\* C17: in every reachable state 0 <= happiness <= max_happiness, also when
\* the properties owned sum to more than max_happiness
HappinessWithinBounds ==
    /\ 0 <= player.happiness
    /\ player.happiness <= player.max_happiness

\* C17 witness: an upgrade took the sum over the two castles past
\* max_happiness and the happiness stayed at the maximum
HappinessClamped ==
    /\ last.op = "buy_upgrade"
    /\ last.ok
    /\ TotalHappiness(player) > player.max_happiness
    /\ player.happiness = player.max_happiness

PropertyMutations == {"buy_property", "sell_property", "buy_upgrade"}

\* C18: after each property purchase, sale and upgrade installation the
\* happiness is min(max_happiness, sum of the owned properties' happiness),
\* and no other step changes the happiness
HappinessIsDerived ==
    [][/\ (last'.op \in PropertyMutations /\ last'.ok) =>
             /\ player'.properties # player.properties
             /\ player'.happiness
                    = Min(player'.max_happiness, TotalHappiness(player'))
       /\ player'.happiness # player.happiness =>
             (last'.op \in PropertyMutations /\ last'.ok)]_vars

\* C18 witness: a cottage was bought, upgraded and sold again, and the
\* happiness is back at 0
SoldAndRecomputed ==
    /\ last.op = "sell_property"
    /\ last.ok
    /\ player.properties = << >>
    /\ player.happiness = 0
    /\ player.gold < Landlord.gold - 300

\* the portfolios of up to two properties as bought, owned by a new player
Portfolios ==
    LET kinds == 1..Len(available_properties)
    IN  {[NewPlayer("Hero", 0) EXCEPT !.properties = props] :
            props \in {<< >>}
                \cup {<< NewProperty(1, k) >> : k \in kinds}
                \cup {<< NewProperty(1, k), NewProperty(2, j) >> : k, j \in kinds}}

\* the happiness of each portfolio and the multiplier its owner gets
PortfolioMultipliers ==
    {[happiness |-> Min(q.max_happiness, TotalHappiness(q)),
      multiplier |-> get_happiness_multiplier(q)] : q \in Portfolios}

\* a <= b for fractions with positive denominators
AtMost(a, b) == a.num * b.den <= b.num * a.den

\* C19: the training multiplier is 1 + (happiness / max_happiness) / 2: at
\* least 1 and at most 3/2, exactly 1 at happiness 0, exactly 3/2 at
\* happiness = max_happiness, and no smaller for a player with more happiness
TrainingMultiplierRange ==
    LET m == get_happiness_multiplier(player)
        h == player.happiness
    IN  /\ m.num * 2 * player.max_happiness
               = m.den * (2 * player.max_happiness + h)
        /\ AtMost([num |-> 1, den |-> 1], m)
        /\ AtMost(m, [num |-> 3, den |-> 2])
        /\ h = 0 => m.num = m.den
        /\ h = player.max_happiness => 2 * m.num = 3 * m.den
        /\ \A q \in PortfolioMultipliers :
              /\ q.happiness <= h => AtMost(q.multiplier, m)
              /\ h <= q.happiness => AtMost(m, q.multiplier)

\* C19 witness: the gym read the multiplier at full happiness, the castles
\* summing to more than max_happiness
GymAtFullHappiness ==
    /\ pc = "gym"
    /\ last.op = "gym"
    /\ player.happiness = player.max_happiness
    /\ TotalHappiness(player) > player.max_happiness
    /\ get_happiness_multiplier(player) = [num |-> 300, den |-> 200]

\* C20: no owned property holds more upgrades than its max_upgrades, and an
\* installation asked for on a property at capacity adds none (and charges
\* nothing)
UpgradesWithinCapacity ==
    /\ [](\A i \in 1..Len(player.properties) :
             Len(player.properties[i].upgrades)
                 <= available_properties[player.properties[i].kind].max_upgrades)
    /\ [][\A i \in 1..Len(player.properties) :
             (/\ Len(player.properties[i].upgrades)
                     >= available_properties[player.properties[i].kind].max_upgrades
              /\ i <= Len(player'.properties)
              /\ player'.properties[i].id = player.properties[i].id)
                 => player'.properties[i].upgrades = player.properties[i].upgrades]_vars
    /\ [][last'.op = "fully_upgraded" => player' = player]_vars

\* C20 witness: an upgrade was asked for on a cottage holding its two
\* upgrades, with the gold to pay for it
RefusedAtCapacity ==
    /\ last.op = "fully_upgraded"
    /\ player.gold >= last.amt
    /\ \E i \in 1..Len(player.properties) :
          /\ Len(player.properties[i].upgrades) = 2
          /\ available_properties[player.properties[i].kind].max_upgrades = 2

\* the attributes of a Property other than the object's identity
PropertyFields ==
    {"kind", "upgrades", "is_rented", "rented_to", "rent_amount", "listed_for_rent"}

\* loading what to_dict(p) wrote, into the new Player() of a run started at
\* clock t, succeeds and reproduces every field of p
RoundTrip(p, t) ==
    LET r == load_game(NewPlayer("Hero", t), File(to_dict(p)))
    IN  /\ r.ok
        /\ \A k \in DOMAIN p \ {"properties"} : r.player[k] = p[k]
        /\ Len(r.player.properties) = Len(p.properties)
        /\ \A i \in 1..Len(p.properties) :
              \A f \in PropertyFields :
                  r.player.properties[i][f] = p.properties[i][f]
        /\ to_dict(r.player) = to_dict(p)

\* characters of other sessions: every weapon and armor kind, and a castle
\* with three upgrades that is listed for rent
Veterans ==
    {Adept, Tired, Spent, Knight, Landlord, Baron,
     [Baron EXCEPT !.weapon = 5, !.armor = 5,
                   !.properties[1].upgrades = << 3, 1, 3 >>,
                   !.properties[1].listed_for_rent = TRUE,
                   !.properties[1].rent_amount = 600,
                   !.happiness = 100]}

\* a save file written by this version of the game: every key is there
FullRecord(data) == DOMAIN data = DOMAIN to_dict(NewPlayer("Hero", 0))

\* C21: save then load round-trips the character: the record save_game
\* writes is to_dict of the player, and loading it into a new session
\* reproduces name, pools, maximums, gold, experience, level,
\* last_energy_update, stats, happiness, weapon, armor and every property
\* with its upgrades in order and its rent flags
SaveLoadRoundTrip ==
    /\ [](RoundTrip(player, MaxTime))
    /\ [](\A p \in Veterans : RoundTrip(p, MaxTime))
    /\ [][disk'.save_file # disk.save_file =>
              disk'.save_file = File(to_dict(player))]_vars
    /\ [][(last'.op = "load_game" /\ FullRecord(disk.save_file.data)) =>
              /\ last'.ok
              /\ to_dict(player') = disk.save_file.data]_vars

\* C21 witness: a later run loaded the save of a run that bought, upgraded
\* and listed a property
ReloadedEstate ==
    /\ last.op = "load_game"
    /\ last.ok
    /\ player.last_energy_update < now
    /\ player.weapon # NoItem
    /\ \E i \in 1..Len(player.properties) :
          /\ Len(player.properties[i].upgrades) = 2
          /\ player.properties[i].listed_for_rent
          /\ player.properties[i].rent_amount > 0

OptionalKeys ==
    {"strength", "agility", "vitality", "happiness", "max_happiness", "properties"}

\* the documented default of an optional key
DefaultOf(k) ==
    CASE k = "max_happiness" -> 100
      [] k = "properties" -> << >>
      [] OTHER -> 0

\* the record data without the key k
Without(data, k) == [j \in DOMAIN data \ {k} |-> data[j]]

\* C22: a record with every required key loads successfully whichever of
\* strength, agility, vitality, happiness, max_happiness, properties it
\* lacks, the missing values becoming 0, 0, 0, 0, 100 and no properties
MissingKeysDefaulted ==
    /\ [](\A k \in OptionalKeys :
             LET r == load_game(NewPlayer("Hero", now),
                                File(Without(to_dict(player), k)))
             IN  /\ r.ok
                 /\ r.player[k] = DefaultOf(k)
                 /\ \A j \in DOMAIN player \ {k, "properties"} :
                        r.player[j] = player[j])
    /\ [][(/\ last'.op = "load_game"
           /\ disk.save_file.exists /\ disk.save_file.json
           /\ OptionalKeys \cap DOMAIN disk.save_file.data = {}
           /\ \A i \in 1..Len(RequiredKeys) :
                  RequiredKeys[i] \in DOMAIN disk.save_file.data
           /\ {"weapon", "armor"} \subseteq DOMAIN disk.save_file.data) =>
              /\ last'.ok
              /\ pc' = "loop"
              /\ \A k \in OptionalKeys : player'[k] = DefaultOf(k)
              /\ player'.gold = disk.save_file.data.gold
              /\ player'.level = disk.save_file.data.level]_vars

\* C22 witness: the old save, which has none of the optional keys, was
\* loaded
LoadedLegacy ==
    /\ last.op = "load_game"
    /\ last.ok
    /\ disk.save_file = File(Legacy)
    /\ player.gold = 700
    /\ player.weapon = 2
    /\ player.max_happiness = 100
    /\ player.properties = << >>

\* C23: with no save file load_game returns False and leaves every field of
\* the player as it was
MissingFileLeavesPlayer ==
    /\ [](load_game(player, NoFile) = [player |-> player, ok |-> FALSE])
    /\ [][(last'.op = "load_game" /\ ~disk.save_file.exists) =>
              /\ ~last'.ok
              /\ player' = player]_vars

\* C23 witness: Load Game was chosen in a directory without a save
NothingToLoad ==
    /\ last.op = "load_game"
    /\ ~last.ok
    /\ ~disk.save_file.exists
    /\ player = NewPlayer("Hero", now)
    /\ pc = "exited"

\* C24: after a load that failed on a save file that is there (not JSON, or
\* lacking a required key) the program is in the play loop
CorruptSaveKeepsSessionUsable ==
    (last.op = "load_game" /\ ~last.ok /\ disk.save_file.exists)
        => pc \in {"loop", "main"}

\* C25: the character's currency is a pair (major, minor) of shillings and
\* pennies, 12 pennies to the shilling, whose minor part stays in 0..11
\* through every purchase, refund, reward, rent and sale
CurrencyIsTwoDenomination ==
    /\ {"shillings", "pennies"} \subseteq DOMAIN player
    /\ player.pennies \in 0..11
    /\ {"shillings", "pennies"} \subseteq DOMAIN to_dict(player)

\* the entries of leaderboard.json, none when the file is not there
Entries(file) == IF file.exists /\ file.json THEN file.data.entries ELSE << >>

\* at most one entry per name
OnePerName(entries) ==
    \A i, j \in 1..Len(entries) : entries[i].name = entries[j].name => i = j

\* C26: a save upserts the leaderboard by exact, case-sensitive name: the
\* entry with the player's name is replaced in place and nothing is added,
\* or one entry is appended when no entry has that name; the other entries
\* and their order are unchanged, and one entry per name stays one entry per
\* name
LeaderboardUpsert ==
    /\ [](OnePerName(Entries(disk.leaderboard_file)))
    /\ [][disk'.save_file # disk.save_file \/ last'.op = "save_game" =>
              LET old == Entries(disk.leaderboard_file)
                  new == Entries(disk'.leaderboard_file)
                  hits == {i \in 1..Len(old) : old[i].name = player.name}
                  at == IF hits = {} THEN Len(old) + 1
                        ELSE CHOOSE i \in hits : \A j \in hits : i <= j
              IN  /\ Len(new) = IF hits = {} THEN Len(old) + 1 ELSE Len(old)
                  /\ \A i \in 1..Len(old) : i # at => new[i] = old[i]
                  /\ new[at].name = player.name
                  /\ new[at].level = player.level
                  /\ new[at].experience = player.experience
                  /\ new[at].gold = player.gold
                  /\ new[at].max_health = player.max_health]_vars

\* C26 witness: the character named "hero" saved and took the place of the
\* old entry of that name, and later "Hero" was appended behind it
ReplacedThenAppended ==
    LET board == Entries(disk.leaderboard_file)
    IN  /\ last.op \in {"save_game", "exit"}
        /\ last.ok
        /\ player.name = "Hero"
        /\ Len(board) = 3
        /\ board[1] = OldBoard[1]
        /\ board[2].name = "hero" /\ board[2] # OldBoard[2]
        /\ board[3].name = "Hero"

\* C27: a level-up adds exactly 1 to the level, 20 to max_health, 10 to
\* max_mana and 10 to max_energy and fills health, mana and energy to the
\* new maximums; the level and the three maximums never decrease and the
\* maximums change only with the level
LevelUpRaisesPools ==
    [][/\ player'.level >= player.level
       /\ player'.max_health >= player.max_health
       /\ player'.max_mana >= player.max_mana
       /\ player'.max_energy >= player.max_energy
       /\ IF player'.level # player.level
          THEN /\ player'.level = player.level + 1
               /\ player'.max_health = player.max_health + 20
               /\ player'.max_mana = player.max_mana + 10
               /\ player'.max_energy = player.max_energy + 10
               /\ player'.health = player'.max_health
               /\ player'.mana = player'.max_mana
               /\ player'.energy = player'.max_energy
          ELSE /\ player'.max_health = player.max_health
               /\ player'.max_mana = player.max_mana
               /\ player'.max_energy = player.max_energy]_vars

\* C27 witness: the knight, wounded and short of mana and energy, won a
\* fight and rose from level 6 to level 7 with every pool full
KnightPromoted ==
    /\ last.op \in {"attack", "cast"}
    /\ player.name = Knight.name
    /\ player.strength = Knight.strength
    /\ player.level = Knight.level + 1
    /\ player.max_health = Knight.max_health + 20
    /\ player.health = Knight.max_health + 20
    /\ player.mana = Knight.max_mana + 10
    /\ player.energy = Knight.max_energy + 10

\* amounts healed or restored: nothing, a little, rest's amount, and more
\* than any pool holds
HealAmounts == {0, 1, 50, 500}

\* C28: heal and restore_mana give min(max, current + amount), never less
\* than before, and touch no other field; rest is heal(50) and
\* restore_mana(50) and changes nothing else
HealAndRestClamp ==
    /\ [](\A amount \in HealAmounts :
             LET h == heal(player, amount)
                 m == restore_mana(player, amount)
             IN  /\ h.health = IF player.health + amount > player.max_health
                               THEN player.max_health ELSE player.health + amount
                 /\ h.health >= player.health
                 /\ SameExcept(player, h, "health", "health")
                 /\ m.mana = IF player.mana + amount > player.max_mana
                             THEN player.max_mana ELSE player.mana + amount
                 /\ m.mana >= player.mana
                 /\ SameExcept(player, m, "mana", "mana"))
    /\ [][last'.op = "rest" =>
              /\ player'.health = IF player.health + 50 > player.max_health
                                  THEN player.max_health ELSE player.health + 50
              /\ player'.mana = IF player.mana + 50 > player.max_mana
                                THEN player.max_mana ELSE player.mana + 50
              /\ SameExcept(player, player', "health", "mana")
              /\ UNCHANGED <<now, enemy, fights, rental_listings, disk>>]_vars

\* C28 witness: the adept who began with 10 mana rested after winning a
\* fight: the health went to the maximum and no further, and the mana rose
\* by exactly 50, short of the maximum
RestedToFull ==
    /\ last.op = "rest"
    /\ fights = 1
    /\ player.weapon = Spent.weapon
    /\ player.experience > Spent.experience
    /\ player.health = player.max_health
    /\ player.mana = Spent.mana + 50
    /\ player.mana < player.max_mana

\* the happiness boosts of the upgrades installed in prop
UpgradeBoosts(prop) ==
    LET ups == available_upgrades(available_properties[prop.kind].property_type)
    IN  SumTo([i \in 1..Len(prop.upgrades) |-> ups[prop.upgrades[i]].happiness_bonus],
              Len(prop.upgrades))

\* the happiness a property of this type gives before any upgrade
TypeHappiness(prop) ==
    LET ptype == available_properties[prop.kind].property_type
    IN  CASE ptype = "cottage" -> 10
          [] ptype = "manor" -> 25
          [] ptype = "castle" -> 50
          [] OTHER -> 0

\* C29 as stated: a property's happiness is the sum of its upgrades' boosts
\* (0 without upgrades) and the character's happiness is the sum over the
\* properties owned, capped at max_happiness
HappinessSumsUpgradesOnly ==
    /\ \A i \in 1..Len(player.properties) :
          calculate_happiness_bonus(player.properties[i])
              = UpgradeBoosts(player.properties[i])
    /\ calculate_happiness(player).happiness
          = Min(player.max_happiness,
                SumTo([i \in 1..Len(player.properties) |->
                          UpgradeBoosts(player.properties[i])],
                      Len(player.properties)))

\* C29 amended: a property's happiness is the base happiness of its type
\* (cottage 10, manor 25, castle 50) plus the sum of its upgrades' boosts,
\* and the character's happiness is the sum over the properties owned,
\* capped at max_happiness
HappinessSumsBaseAndUpgrades ==
    /\ \A i \in 1..Len(player.properties) :
          calculate_happiness_bonus(player.properties[i])
              = TypeHappiness(player.properties[i])
                  + UpgradeBoosts(player.properties[i])
    /\ calculate_happiness(player).happiness
          = Min(player.max_happiness,
                SumTo([i \in 1..Len(player.properties) |->
                          TypeHappiness(player.properties[i])
                              + UpgradeBoosts(player.properties[i])],
                      Len(player.properties)))
    /\ player.happiness = calculate_happiness(player).happiness

\* C29 witness: one castle is left, with one upgrade, and the happiness is
\* its base 50 plus the upgrade's boost, below the cap
CastleWithUpgrade ==
    /\ Len(player.properties) = 1
    /\ Len(player.properties[1].upgrades) = 1
    /\ player.happiness > 50
    /\ player.happiness < player.max_happiness
    /\ player.happiness = 50 + UpgradeBoosts(player.properties[1])

\* C30: a paid training adds trunc(base * multiplier) to exactly the stats
\* trained, base 1 for one stat and 2 for intensive training, multiplier
\* 1 + happiness / (2 * max_happiness); the gain is at least the base and at
\* most trunc(1.5 * base)
TrainingGainTruncated ==
    [][(last'.op = "train" /\ last'.ok) =>
          LET base == IF last'.amt = 200 THEN 2 ELSE 1
              gain == (base * (2 * player.max_happiness + player.happiness))
                          \div (2 * player.max_happiness)
              grown == {k \in {"strength", "agility", "vitality"} :
                           player'[k] # player[k]}
          IN  /\ base <= gain
              /\ gain <= (3 * base) \div 2
              /\ Cardinality(grown) = IF base = 2 THEN 3 ELSE 1
              /\ \A k \in grown : player'[k] = player[k] + gain
              /\ player'.gold = player.gold - last'.amt
              /\ \A k \in DOMAIN player :
                     k \notin {"strength", "agility", "vitality", "gold"}
                         => player'[k] = player[k]]_vars

\* C30 witness: intensive training at full happiness added trunc(2 * 1.5) = 3
\* to each stat
IntensiveAtFullHappiness ==
    /\ last.op = "train"
    /\ last.ok
    /\ last.amt = 200
    /\ player.happiness = player.max_happiness
    /\ player.strength = 3
    /\ player.agility = 3
    /\ player.vitality = 3

\* C31: the amount update_energy returns is the energy it added: the
\* energy after the call less the energy before it, also when the gain is
\* clamped at max_energy
ReturnedEnergyIsAdded ==
    [][last'.op = "update_energy" =>
          last'.amt = player'.energy - player.energy]_vars

\* C32: load_game is all-or-nothing: when it returns False, for a missing
\* file, unparsable data or a record lacking a required key, every field of
\* the player, the property list included, is what it was before the call
FailedLoadLeavesPlayer ==
    [][(last'.op = "load_game" /\ ~last'.ok) =>
          /\ \A k \in DOMAIN player : player'[k] = player[k]
          /\ Len(player'.properties) = Len(player.properties)]_vars

\* the positions in the rental listings that refer to the Property object id
ListingsOf(id) ==
    {i \in 1..Len(rental_listings) : rental_listings[i].property = id}

\* C33: the rental listings agree with ownership: every listing refers to
\* a property the player owns whose listed_for_rent is true, every owned
\* property with listed_for_rent true has exactly one listing, and no
\* property is both listed_for_rent and is_rented
ListingsMatchOwnership ==
    /\ \A i \in 1..Len(rental_listings) :
          \E j \in 1..Len(player.properties) :
              /\ player.properties[j].id = rental_listings[i].property
              /\ player.properties[j].listed_for_rent
    /\ \A j \in 1..Len(player.properties) :
          /\ player.properties[j].listed_for_rent
                => Cardinality(ListingsOf(player.properties[j].id)) = 1
          /\ ~(player.properties[j].listed_for_rent
               /\ player.properties[j].is_rented)

\* C34: every Attack and every successful Cast strikes for at least 10 and
\* strictly lowers the enemy's health, so with the player choosing Attack
\* an encounter in progress ends (victory, defeat or flight), and a round
\* is played only inside an encounter, which only a new combat() starts
EncountersTerminate ==
    /\ [][(last'.op = "attack" \/ (last'.op = "cast" /\ last'.ok)) =>
              /\ pc = "combat"
              /\ last'.amt >= 10
              /\ enemy'.health < enemy.health]_vars
    /\ (pc = "combat") ~> (pc \in {"loop", "exited"})
    /\ [][last'.op \in {"attack", "cast", "flee"} => pc = "combat"]_vars
    /\ [][(pc # "combat" /\ pc' = "combat") =>
              /\ last'.op = "combat"
              /\ fights' = fights + 1]_vars

\* C34 witness: the new character, striking for 10 a round, brought down
\* the Orc of 65 health in the seventh round
OrcFelled ==
    /\ last.op = "attack"
    /\ last.amt = 10
    /\ pc = "loop"
    /\ fights = 1
    /\ player.level = 1
    /\ player.experience = 35
    /\ player.health = 100 - 6 * 13

\* C35: whenever the program is at the main menu the player's health is at
\* least 1: only an enemy's undodged attack inside combat lowers the
\* health, and a round that leaves it at 0 does not return to the menu
AliveAtMenu ==
    /\ [](pc \in {"loop", "main"} => player.health >= 1)
    /\ [][player'.health < player.health =>
              /\ pc = "combat"
              /\ last'.op \in {"attack", "cast"}
              /\ last'.hit.struck /\ ~last'.hit.dodged]_vars
    /\ [][(pc = "combat" /\ player'.health <= 0) =>
              pc' \notin {"loop", "main", "combat"}]_vars

\* C35 witness: the new character is back at the menu with 1 health left
\* of 100, after the blows taken in two fights
BarelyAlive ==
    /\ pc = "main"
    /\ player.health = 1
    /\ player.max_health = 100
    /\ fights = 2

\* the properties of p' whose upgrade list differs from what it was in p
Installed ==
    {i \in 1..Len(player.properties) :
        \/ i > Len(player'.properties)
        \/ player'.properties[i].upgrades # player.properties[i].upgrades}

====
